---- MODULE Spec2Model ----
(***************************************************************************)
(* ply.ink: the App component (frontend/src/App.tsx) with the PDFViewer it *)
(* renders (frontend/src/components/pdf/PDFSidebar.tsx, lines 119-516).    *)
(*                                                                         *)
(* One action is one event-loop task: a DOM handler or the continuation of *)
(* an awaited promise, followed by the React commit it causes and by the   *)
(* effects of that commit (React 19 batches every setState of one task).   *)
(* The backend (pdfjs-dist) is a black box: getDocument, getPage and       *)
(* page.render() resolve or reject in any order; RenderTask.cancel() only  *)
(* allows the task to reject with RenderingCancelledException.             *)
(*                                                                         *)
(* Scales are exact rationals <<n, d>> in lowest terms (1.2 is <<6, 5>>);  *)
(* the code uses IEEE doubles, which agree with them up to rounding.       *)
(*                                                                         *)
(* Eight specifications share the actions:                                  *)
(*   Spec      App with its toolbar and file inputs and the asynchronous   *)
(*             load and render steps;                                      *)
(*   KeySpec   Spec with the keyboard handler, the toolbar's page field    *)
(*             and wheel events, for the viewer of App and for the same    *)
(*             viewer under a parent that leaves page and scale to the     *)
(*             viewer;                                                     *)
(*   ZoomSpec  the zoom handlers of toolbar, keyboard and wheel on a       *)
(*             loaded viewer, from every scale of ScaleInputs, until the   *)
(*             viewer is unmounted;                                        *)
(*   PropSpec  the viewer on a loaded document under a parent that passes  *)
(*             any page;                                                   *)
(*   PanSpec   the tool buttons and the mouse on a displayed page;         *)
(*   SideSpec  Spec with the sidebar;                                      *)
(*   ExportSpec Spec with the export button;                               *)
(*   FileSpec  App with files of every type, chosen or dropped.            *)
(***************************************************************************)
EXTENDS Integers, Sequences, FiniteSets, TLC

VARIABLES
    app,            \* React state of App (App.tsx 14-22)
    viewer,         \* React state of PDFViewer (PDFSidebar.tsx 143-148), whether its
                    \* parent passes scale and currentPage (controlled), whether it
                    \* is mounted, whether its wheel listener was attached at mount
                    \* (wheel), and every timer handleWheel has set (wheelTimers)
    renderTaskRef,  \* renderTaskRef.current: 0 (null) or the session whose RenderTask it holds
    canvas,         \* the <canvas> element canvasRef designates, and what it shows
    files,          \* every File made current so far, with the state of its loadPDF()
                    \* call and the number of exports that are reading its bytes
    sess,           \* every renderPage() call so far (a render session)
    pan,            \* scrollLeft and scrollTop of the scroll container, what the
                    \* registered pan handlers captured, and the mouse gesture
    inputs,         \* number of user inputs handled
    last            \* the task that ran last and the callbacks it invoked

vars == <<app, viewer, renderTaskRef, canvas, files, sess, pan, inputs, last>>

-----------------------------------------------------------------------------
(* Bounds of the model *)

MaxInputs == 3      \* user inputs (file, close, page, zoom) in one run
MaxPages == 2       \* pages of the largest document
MaxSessions == 4    \* renderPage() calls in one run
ScrollMax == 4      \* largest scrollLeft and scrollTop of the scroll container

-----------------------------------------------------------------------------
(* Values *)

Null == 0                  \* null: no file, no document, no render task, no canvas
NoError == "null"          \* error === null

\* Error.message of what the backend and the DOM throw
InvalidPDF      == "Invalid PDF structure"
InvalidPage     == "Invalid page request"
NoCanvas        == "Cannot read properties of null"
RenderFailed    == "Render failed"
RenderCancelled == "Rendering cancelled"

\* the messages App sets itself (App.tsx 36, 142 and 74)
SelectInvalid == "Please select a valid PDF file"
DropInvalid   == "Please drop a valid PDF file"
ExportFailed  == "Failed to export PDF"

\* Error.name
CancelName == "RenderingCancelledException"
ErrorName  == "Error"

-----------------------------------------------------------------------------
(* Scale arithmetic on rationals in lowest terms *)

RECURSIVE GCD(_, _)
GCD(a, b) == IF b = 0 THEN a ELSE GCD(b, a % b)

Rat(n, d) == LET g == GCD(n, d) IN <<n \div g, d \div g>>
RMul(a, b) == Rat(a[1] * b[1], a[2] * b[2])
RDiv(a, b) == Rat(a[1] * b[2], a[2] * b[1])
RLess(a, b) == a[1] * b[2] < b[1] * a[2]
RMin(a, b) == IF RLess(b, a) THEN b ELSE a
RMax(a, b) == IF RLess(a, b) THEN b ELSE a

InitialScale == <<6, 5>>   \* useState(1.2)
ZoomFactor == <<6, 5>>     \* 1.2
MinScale == <<1, 2>>       \* 0.5
MaxScale == <<3, 1>>       \* 3

\* App.tsx 118-124
handleZoomIn(prev) == RMin(RMul(prev, ZoomFactor), MaxScale)
handleZoomOut(prev) == RMax(RDiv(prev, ZoomFactor), MinScale)

-----------------------------------------------------------------------------
(* The state as one record, so that a handler and the effects that follow  *)
(* it compose as functions                                                 *)

\* a DOM event as its handler sees it: the key, whether the target is an
\* input, textarea or select element, the scroll position of the element
\* document.querySelector('.overflow-auto') finds, ctrlKey and deltaY of a
\* wheel event, and defaultPrevented
KeyEvent(key, inInput, atTop, atBottom) ==
    [key |-> key, inInput |-> inInput, atTop |-> atTop, atBottom |-> atBottom,
     ctrlKey |-> FALSE, deltaY |-> 0, defaultPrevented |-> FALSE]

\* a wheel event over the viewer
WheelEvent(ctrlKey, deltaY) ==
    [key |-> "wheel", inInput |-> FALSE, atTop |-> FALSE, atBottom |-> FALSE,
     ctrlKey |-> ctrlKey, deltaY |-> deltaY, defaultPrevented |-> FALSE]

NoEvent == KeyEvent("", FALSE, FALSE, FALSE)

\* the page and scale the viewer holds as its own state
Mirror(v) == [currentPage |-> v.currentPage, scale |-> v.scale]

World == [app |-> app, viewer |-> viewer, renderTaskRef |-> renderTaskRef,
          canvas |-> canvas, files |-> files, sess |-> sess, pan |-> pan,
          calls |-> <<>>, ev |-> NoEvent, mirror |-> Mirror(viewer)]

\* a callback prop of PDFViewer invoked with an argument
Call(cb, arg) == [cb |-> cb, arg |-> arg]

\* a renderPage() call that has returned keeps no state
Done == [pdf |-> Null, pageNumber |-> 0, scale |-> <<0, 1>>, tp |-> 0,
         st |-> "done", cancelReq |-> FALSE, el |-> Null, visual |-> FALSE]

numPages(w, doc) == w.files[doc].numPages

\* PDFSidebar.tsx 151-152: "externalScale ?? scale" and "externalCurrentPage
\* ?? currentPage"; App passes both props (viewer.controlled)
activeScale(w) == IF w.viewer.controlled THEN w.app.scale ELSE w.viewer.scale
activePage(w) == IF w.viewer.controlled THEN w.app.currentPage ELSE w.viewer.currentPage

\* PDFSidebar.tsx 417-482: the canvas is rendered unless there is no file or
\* the spinner replaces the page ("loading && !pdf")
CanvasMounted(w) ==
    /\ w.app.currentFile # Null
    /\ ~(w.viewer.loading /\ w.viewer.pdf = Null)

\* App.tsx 92-95
handleLoadError(a, message) == [a EXCEPT !.error = message, !.loading = FALSE]

\* onLoadError?.(error) as PDFViewer calls it
onLoadError(w, message) ==
    [w EXCEPT !.app = handleLoadError(@, message),
              !.calls = Append(@, Call("onLoadError", message))]

\* App.tsx 84-89
handleLoadSuccess(a, doc, n) ==
    [a EXCEPT !.pdf = doc, !.totalPages = n, !.currentPage = 1, !.loading = FALSE]

\* onLoadSuccess?.(pdfDoc) as PDFViewer calls it
onLoadSuccess(w, doc) ==
    [w EXCEPT !.app = handleLoadSuccess(@, doc, numPages(w, doc)),
              !.calls = Append(@, Call("onLoadSuccess", doc))]

\* App.tsx 98-102, the instance created while totalPages was tp
handlePageChange(a, tp, page) ==
    IF page >= 1 /\ page <= tp THEN [a EXCEPT !.currentPage = page] ELSE a

\* onPageChange?.(page) as a renderPage() created while totalPages was tp calls it
onPageChange(w, tp, page) ==
    [w EXCEPT !.app = handlePageChange(@, tp, page),
              !.calls = Append(@, Call("onPageChange", page))]

\* App.tsx 50-58
handleClosePDF(a) ==
    [a EXCEPT !.currentFile = Null, !.pdf = Null, !.currentPage = 1,
              !.totalPages = 0, !.scale = InitialScale, !.error = NoError,
              !.sidebarOpen = FALSE]

-----------------------------------------------------------------------------
(* The effects of PDFViewer, in the order React runs them after a commit   *)

\* PDFSidebar.tsx 155-159: the internal page follows the currentPage prop
SyncPageSkipped(w) == w
SyncPage(w) ==
    IF w.viewer.controlled /\ w.app.currentPage # w.viewer.currentPage
    THEN [w EXCEPT !.viewer.currentPage = w.app.currentPage]
    ELSE w

\* PDFSidebar.tsx 161-165: the internal scale follows the scale prop
SyncScaleSkipped(w) == w
SyncScale(w) ==
    IF w.viewer.controlled /\ w.app.scale # w.viewer.scale
    THEN [w EXCEPT !.viewer.scale = w.app.scale]
    ELSE w

\* PDFSidebar.tsx 154-165: the internal mirrors follow the props
SyncExternal(w) == SyncScale(SyncPage(w))

\* PDFSidebar.tsx 178-203, up to the first await of loadPDF(); it runs when
\* the file prop changed (onLoadSuccess and onLoadError never change)
LoadEffect(old, w) ==
    IF w.app.currentFile = old.app.currentFile THEN w
    ELSE IF w.app.currentFile = Null THEN [w EXCEPT !.viewer.pdf = Null]
    ELSE [w EXCEPT !.viewer.loading = TRUE,
                   !.files[w.app.currentFile].load = "loading"]

\* PDFSidebar.tsx 213-217: cancel() on the stored task, then forget it
CancelOngoing(w) ==
    LET r == w.renderTaskRef IN
    IF r = Null THEN w
    ELSE [w EXCEPT !.sess[r].cancelReq = (@ \/ w.sess[r].st = "active"),
                   !.renderTaskRef = Null]

NewSession(w, pageNumber) ==
    [pdf |-> w.viewer.pdf, pageNumber |-> pageNumber, scale |-> activeScale(w),
     tp |-> w.app.totalPages, st |-> "pending", cancelReq |-> FALSE,
     el |-> Null, visual |-> FALSE]

\* PDFSidebar.tsx 209-219: renderPage() up to "await pdf.getPage(pageNumber)"
renderPage(w, pageNumber) ==
    LET c == CancelOngoing([w EXCEPT !.viewer.loading = TRUE])
    IN  [c EXCEPT !.sess = Append(@, NewSession(w, pageNumber))]

\* the dependency list of the render effect (PDFSidebar.tsx 249); the
\* identity of onPageChange is decided by totalPages (App.tsx 102) and
\* onLoadError never changes
RenderDeps(w) == <<w.viewer.pdf, activePage(w), activeScale(w), w.app.totalPages>>

\* PDFSidebar.tsx 206-249
RenderEffectWhenIdle(old, w) ==
    IF RenderDeps(w) = RenderDeps(old) \/ w.renderTaskRef # Null THEN w
    ELSE IF w.viewer.pdf = Null \/ ~CanvasMounted(w) THEN w
    ELSE renderPage(w, activePage(w))
RenderEffect(old, w) ==
    IF RenderDeps(w) = RenderDeps(old) THEN w
    ELSE IF w.viewer.pdf = Null \/ ~CanvasMounted(w) THEN w
    ELSE renderPage(w, activePage(w))

\* PDFSidebar.tsx 417-482: React replaces the canvas element when the
\* render output switches between the page and the spinner or empty view
MountCanvas(w) ==
    IF CanvasMounted(w) /\ w.canvas.el = Null
    THEN [w EXCEPT !.canvas = [el |-> @.gen + 1, gen |-> @.gen + 1,
                               by |-> Null, drawn |-> FALSE]]
    ELSE IF ~CanvasMounted(w) /\ w.canvas.el # Null
    THEN [w EXCEPT !.canvas = [el |-> Null, gen |-> @.gen,
                               by |-> Null, drawn |-> FALSE]]
    ELSE w

\* no pan handler is registered
NoHandlers == [on |-> FALSE, isPanning |-> FALSE, lastPanPoint |-> <<0, 0>>]

\* PDFSidebar.tsx 370-406: the pan effect registers handlers that capture
\* isPanning and lastPanPoint of the commit, in the hand tool only; its
\* cleanup removed the handlers registered before
RegisterPan(w) ==
    [w EXCEPT !.pan.handlers =
        IF w.app.currentTool = "hand"
        THEN [on |-> TRUE, isPanning |-> w.viewer.isPanning,
              lastPanPoint |-> w.viewer.lastPanPoint]
        ELSE NoHandlers]

\* One task's state updates, committed, and the effects of the commit. The
\* render effect reads the values of the commit itself; what the sync and
\* load effects set is rendered by a second commit, in which the render
\* effect starts nothing (its only changed dependency can be pdf = null).
\* mirror keeps the page and scale the viewer held in the first commit.
Commit(old, w) ==
    LET w1 == SyncExternal([w EXCEPT !.mirror = Mirror(w.viewer)])
        w2 == RenderEffect(old, w1)
        w3 == LoadEffect(old, w2)
    IN  IF w.viewer.mounted THEN RegisterPan(MountCanvas(w3)) ELSE w

\* the tasks a user input starts; all others continue an awaited promise
UserTasks == {"SelectFile", "ClosePDF", "PrevPage", "NextPage", "ZoomIn", "ZoomOut",
              "KeyDown", "PageInput", "Wheel", "Unmount", "SetPage", "SidebarSelect",
              "DropFile", "ExportFile"}

Apply(task, s, world) ==
    /\ (IF task \in UserTasks THEN inputs + 1 ELSE inputs) <= MaxInputs
    /\ \E w \in {world} :
        /\ Len(w.sess) <= MaxSessions
        /\ inputs' = IF task \in UserTasks THEN inputs + 1 ELSE inputs
        /\ last' = [task |-> task, s |-> s, latest |-> (s # Null /\ s = Len(sess)),
                    calls |-> w.calls, ev |-> w.ev, mirror |-> w.mirror]
        /\ app' = w.app
        /\ viewer' = w.viewer
        /\ renderTaskRef' = w.renderTaskRef
        /\ canvas' = w.canvas
        /\ files' = w.files
        /\ sess' = w.sess
        /\ pan' = w.pan

\* no mouse button is held
NoGesture == [held |-> FALSE, onCanvas |-> FALSE, tool |-> "cursor",
              point |-> <<0, 0>>, scroll |-> <<0, 0>>, limit |-> FALSE]

\* the scroll container at its origin, no pan handler, no gesture
NoPan == [scroll |-> <<0, 0>>, handlers |-> NoHandlers, gesture |-> NoGesture]

-----------------------------------------------------------------------------
(* Initial state: App mounted, nothing loaded *)

Init ==
    /\ app = [currentFile |-> Null, pdf |-> Null, currentPage |-> 1,
              totalPages |-> 0, scale |-> InitialScale, loading |-> FALSE,
              error |-> NoError, sidebarOpen |-> FALSE, currentTool |-> "cursor"]
    /\ viewer = [pdf |-> Null, currentPage |-> 1, loading |-> FALSE,
                 scale |-> InitialScale, isPanning |-> FALSE,
                 lastPanPoint |-> <<0, 0>>, controlled |-> TRUE, mounted |-> TRUE,
                 wheel |-> FALSE, wheelTimers |-> <<>>]
    /\ renderTaskRef = Null
    /\ canvas = [el |-> Null, gen |-> 0, by |-> Null, drawn |-> FALSE]
    /\ files = <<>>
    /\ sess = <<>>
    /\ pan = NoPan
    /\ inputs = 0
    /\ last = [task |-> "mount", s |-> Null, latest |-> FALSE, calls |-> <<>>,
               ev |-> NoEvent, mirror |-> Mirror(viewer)]

-----------------------------------------------------------------------------
(* User actions *)

\* File.type of the files of the model
PDFType == "application/pdf"
Types == {PDFType, "text/plain", ""}

\* a File the user picks or drops: its type, and bytes that hold a document
\* of n pages (n = 0: bytes pdf.js rejects)
File(type, n) == [type |-> type, numPages |-> n, load |-> "idle", reads |-> 0]

\* pdf-worker.ts 22-24
isPDFFileAlways(file) == TRUE
isPDFFile(file) == file.type = PDFType

\* App.tsx 35-41 and 141-147: the body handleFileChange and handleDrop share;
\* message is what the handler says of a file it refuses
handleFileChange(w, file, message) ==
    LET c == [w EXCEPT !.calls = Append(@, Call("isPDFFile", file.type))]
    IN  IF ~isPDFFile(file) THEN [c EXCEPT !.app.error = message]
        ELSE [c EXCEPT !.files = Append(@, file),
                       !.app.currentFile = Len(w.files) + 1,
                       !.app.error = NoError]

\* App.tsx 31-47: a file is chosen in the file dialog
SelectFile(type, n) ==
    /\ Apply("SelectFile", Null,
             Commit(World, handleFileChange(World, File(type, n), SelectInvalid)))

\* App.tsx 136-148: a file is dropped on the window
DropFile(type, n) ==
    /\ Apply("DropFile", Null,
             Commit(World, handleFileChange(World, File(type, n), DropInvalid)))

\* part_001 96-105 and App.tsx 61-65: the export button, disabled without a
\* file; handleExportFile up to "await currentFile.arrayBuffer()"
ExportFile ==
    /\ app.currentFile # Null
    /\ Apply("ExportFile", Null,
             Commit(World, [World EXCEPT !.files[app.currentFile].reads = @ + 1]))

\* App.tsx 50-58 (toolbar close button)
ClosePDF ==
    /\ Apply("ClosePDF", Null, Commit(World, [World EXCEPT !.app = handleClosePDF(@)]))

\* App.tsx 105-109; the button is disabled when currentPage <= 1 || loading
PrevPage ==
    /\ ~app.loading
    /\ app.currentPage > 1
    /\ Apply("PrevPage", Null, Commit(World, [World EXCEPT !.app.currentPage = @ - 1]))

\* App.tsx 111-115; the button is disabled when currentPage >= totalPages || loading
NextPage ==
    /\ ~app.loading
    /\ app.currentPage < app.totalPages
    /\ Apply("NextPage", Null, Commit(World, [World EXCEPT !.app.currentPage = @ + 1]))

\* App.tsx 118-120; the button is disabled when scale >= 3
ZoomIn ==
    /\ RLess(app.scale, MaxScale)
    /\ Apply("ZoomIn", Null, Commit(World, [World EXCEPT !.app.scale = handleZoomIn(@)]))

\* App.tsx 122-124; the button is disabled when scale <= 0.5
ZoomOut ==
    /\ RLess(MinScale, app.scale)
    /\ Apply("ZoomOut", Null, Commit(World, [World EXCEPT !.app.scale = handleZoomOut(@)]))

-----------------------------------------------------------------------------
(* Continuations of loadPDF() *)

\* PDFSidebar.tsx 189-193 and 197-199: getDocument() resolved. Nothing is
\* done between the two awaits of loadPDF(), so they are one step.
LoadResolve(f) ==
    /\ files[f].load = "loading"
    /\ files[f].numPages > 0
    /\ LET w == [World EXCEPT !.files[f].load = "loaded",
                              !.viewer.pdf = f,
                              !.viewer.currentPage = 1]
           x == [onLoadSuccess(w, f) EXCEPT !.viewer.loading = FALSE]
       IN  Apply("LoadResolve", Null, Commit(World, x))

\* PDFSidebar.tsx 194-199: getDocument() rejected
LoadReject(f) ==
    /\ files[f].load = "loading"
    /\ files[f].numPages = 0
    /\ LET w == [World EXCEPT !.files[f].load = "failed"]
           x == [onLoadError(w, InvalidPDF) EXCEPT !.viewer.loading = FALSE]
       IN  Apply("LoadReject", Null, Commit(World, x))

-----------------------------------------------------------------------------
(* Continuations of handleExportFile() *)

\* pdf-worker.ts 31-40, as handleExportFile calls it with the file it captured
downloadBlob(w, f) == [w EXCEPT !.calls = Append(@, Call("downloadBlob", f))]

\* App.tsx 65-71: arrayBuffer() of file f resolved for an export
ExportResolve(f) ==
    /\ files[f].reads > 0
    /\ LET w == downloadBlob([World EXCEPT !.files[f].reads = @ - 1], f)
       IN  Apply("ExportResolve", Null,
                 Commit(World, [w EXCEPT !.app = handleClosePDF(@)]))

\* App.tsx 72-75: arrayBuffer() of file f rejected for an export (the file
\* can no longer be read)
ExportReject(f) ==
    /\ files[f].reads > 0
    /\ LET w == [World EXCEPT !.files[f].reads = @ - 1]
       IN  Apply("ExportReject", Null,
                 Commit(World, [w EXCEPT !.app.error = ExportFailed]))

-----------------------------------------------------------------------------
(* Continuations of renderPage() *)

\* PDFSidebar.tsx 239: which caught errors reach onLoadError
SurfacedAll(name) == TRUE
Surfaced(name) == name # CancelName

\* PDFSidebar.tsx 237: the argument of onPageChange
PageChangeArgActive(w, s) == activePage(w)
PageChangeArg(w, s) == w.sess[s].pageNumber

\* PDFSidebar.tsx 238-245: catch and finally of renderPage() for session s
renderPageCatch(w, s, name, message) ==
    LET e == [w EXCEPT !.sess[s] = Done, !.viewer.loading = FALSE]
    IN  IF Surfaced(name) THEN onLoadError(e, message) ELSE e

\* PDFSidebar.tsx 219-234: getPage() resolved; the canvas is sized, which
\* clears it, and the raster is issued. With no canvas mounted, "canvas"
\* is null and canvas.getContext throws a TypeError. The session notes the
\* element it draws on and whether that element showed a finished page.
GetPageResolve(s) ==
    /\ sess[s].st = "pending"
    /\ sess[s].pageNumber \in 1..numPages(World, sess[s].pdf)
    /\ LET w == IF canvas.el = Null
                THEN renderPageCatch(World, s, "TypeError", NoCanvas)
                ELSE [World EXCEPT !.canvas.by = s,
                                   !.canvas.drawn = FALSE,
                                   !.renderTaskRef = s,
                                   !.sess[s].st = "active",
                                   !.sess[s].el = canvas.el,
                                   !.sess[s].visual = canvas.drawn]
       IN  Apply("GetPageResolve", s, Commit(World, w))

\* PDFSidebar.tsx 219 and 238-245: getPage() rejected (no such page)
GetPageReject(s) ==
    /\ sess[s].st = "pending"
    /\ sess[s].pageNumber \notin 1..numPages(World, sess[s].pdf)
    /\ Apply("GetPageReject", s,
             Commit(World, renderPageCatch(World, s, ErrorName, InvalidPage)))

\* what the raster of session s leaves on the canvas element it was given:
\* the page, unless the element was sized again while it drew
Painted(w, s) ==
    IF w.canvas.el # w.sess[s].el THEN w.canvas
    ELSE [w.canvas EXCEPT !.drawn = (w.canvas.by = s), !.by = s]

\* PDFSidebar.tsx 234-237 and 243-245: the raster resolved
RasterResolve(s) ==
    /\ sess[s].st = "active"
    /\ LET w == [World EXCEPT !.canvas = Painted(World, s),
                              !.renderTaskRef = Null,
                              !.sess[s] = Done,
                              !.viewer.loading = FALSE]
           x == onPageChange(w, sess[s].tp, PageChangeArg(World, s))
       IN  Apply("RasterResolve", s, Commit(World, x))

\* PDFSidebar.tsx 238-245: the raster rejected with RenderingCancelledException,
\* which the backend does only after cancel()
RasterCancelled(s) ==
    /\ sess[s].st = "active"
    /\ sess[s].cancelReq
    /\ Apply("RasterCancelled", s,
             Commit(World, renderPageCatch(World, s, CancelName, RenderCancelled)))

\* PDFSidebar.tsx 238-245: the raster rejected with another Error
RasterFail(s) ==
    /\ sess[s].st = "active"
    /\ Apply("RasterFail", s,
             Commit(World, renderPageCatch(World, s, ErrorName, RenderFailed)))


-----------------------------------------------------------------------------
(* Keyboard, toolbar page field and wheel *)

\* the keys of handleKeyDown's switch, and one it does not handle
Keys == {"ArrowLeft", "ArrowRight", "ArrowUp", "ArrowDown", "+", "=", "-", "Escape"}

\* event.preventDefault()
preventDefault(w) == [w EXCEPT !.ev.defaultPrevented = TRUE]

\* PDFSidebar.tsx 321 and 325: the updaters given to setScale
keyZoomInUnclamped(prev) == RMul(prev, ZoomFactor)
keyZoomIn(prev) == RMin(RMul(prev, ZoomFactor), MaxScale)
keyZoomOut(prev) == RMax(RDiv(prev, ZoomFactor), MinScale)

\* deltaY of the wheel events of the model
DeltaYs == {0 - 100, 0, 100}

\* PDFSidebar.tsx 349-350: the updater the wheel timer gives to setScale
wheelDelta(deltaY) == IF deltaY > 0 THEN <<9, 10>> ELSE <<11, 10>>
wheelZoom(prev, deltaY) == RMax(MinScale, RMin(MaxScale, RMul(prev, wheelDelta(deltaY))))

\* PDFSidebar.tsx 268-272 (and 279-283, 294-298, 310-314): the new page goes
\* to the parent when it owns the page, to the internal state otherwise.
\* The handler is registered again whenever pdf or activePage changed, and
\* totalPages only changes together with pdf, so its onPageChange is the
\* handlePageChange of the current totalPages.
goToPage(w, newPage) ==
    IF w.viewer.controlled
    THEN onPageChange(w, w.app.totalPages, newPage)
    ELSE [w EXCEPT !.viewer.currentPage = newPage]

\* PDFSidebar.tsx 291 and 307: the scroll container exists and is at its top
\* (scrollTop === 0), or within 5px of its bottom
AtTopUnchecked(w) == CanvasMounted(w)
AtTop(w) == CanvasMounted(w) /\ w.ev.atTop
AtBottom(w) == CanvasMounted(w) /\ w.ev.atBottom

\* PDFSidebar.tsx 257-261
InTextInputNever(w) == FALSE
InTextInput(w) == w.ev.inInput

\* PDFSidebar.tsx 254
NoDocumentArrowsOnly(w) == w.viewer.pdf = Null /\ w.ev.key \notin {"+", "=", "-"}
NoDocument(w) == w.viewer.pdf = Null

\* PDFSidebar.tsx 266 and 289, 277 and 305: the guards of the page deltas
HasPrevAlways(w) == TRUE
HasPrev(w) == activePage(w) > 1
HasNext(w) == activePage(w) < numPages(w, w.viewer.pdf)

\* PDFSidebar.tsx 253-328: handleKeyDown for the event w.ev. An arrow key
\* pressed in the toolbar's page field does not reach it (part_001 55-60
\* stops its propagation), which has the effect of the early return.
handleKeyDown(w) ==
    IF NoDocument(w) THEN w
    ELSE IF InTextInput(w) THEN w
    ELSE CASE w.ev.key = "ArrowLeft" ->
                LET p == preventDefault(w)
                IN  IF HasPrev(w) THEN goToPage(p, activePage(w) - 1) ELSE p
           [] w.ev.key = "ArrowRight" ->
                LET p == preventDefault(w)
                IN  IF HasNext(w) THEN goToPage(p, activePage(w) + 1) ELSE p
           [] w.ev.key = "ArrowUp" ->
                IF HasPrev(w) /\ AtTop(w)
                THEN goToPage(preventDefault(w), activePage(w) - 1)
                ELSE w
           [] w.ev.key = "ArrowDown" ->
                IF HasNext(w) /\ AtBottom(w)
                THEN goToPage(preventDefault(w), activePage(w) + 1)
                ELSE w
           [] w.ev.key \in {"+", "="} ->
                [preventDefault(w) EXCEPT !.viewer.scale = keyZoomIn(@)]
           [] w.ev.key = "-" ->
                [preventDefault(w) EXCEPT !.viewer.scale = keyZoomOut(@)]
           [] OTHER -> w

\* App.tsx 218: the onClose prop of the sidebar
onClose(w) == [w EXCEPT !.app.sidebarOpen = FALSE]

\* PDFSidebar.tsx 28-32: handleEscape of the sidebar for the event w.ev
handleEscape(w) ==
    IF w.ev.key = "Escape" /\ w.app.sidebarOpen THEN onClose(w) ELSE w

\* a keydown event reaches the listeners that a mounted viewer
\* (PDFSidebar.tsx 331-332) and the sidebar (PDFSidebar.tsx 34) keep on the
\* document
KeyDown(key, inInput, atTop, atBottom) ==
    /\ viewer.mounted
    /\ LET w == [World EXCEPT !.ev = KeyEvent(key, inInput, atTop, atBottom)]
       IN  Apply("KeyDown", Null, Commit(World, handleEscape(handleKeyDown(w))))

\* the timers handleWheel has set and that neither fired nor were cleared
PendingTimers(w) ==
    {i \in DOMAIN w.viewer.wheelTimers : w.viewer.wheelTimers[i].st = "pending"}

\* PDFSidebar.tsx 344-346 and 362-364: "if (wheelTimeout)
\* clearTimeout(wheelTimeout)"; wheelTimeout is the timer set last, or null
\* once that timer has fired
clearTimeoutSkipped(w) == w
clearTimeout(w) ==
    LET n == Len(w.viewer.wheelTimers) IN
    IF n > 0 /\ w.viewer.wheelTimers[n].st = "pending"
    THEN [w EXCEPT !.viewer.wheelTimers[n].st = "cleared"]
    ELSE w

\* PDFSidebar.tsx 339-354: handleWheel for the event w.ev; the timer keeps
\* the event
handleWheel(w) ==
    IF w.ev.ctrlKey
    THEN LET p == clearTimeout(preventDefault(w))
         IN  [p EXCEPT !.viewer.wheelTimers = Append(@, [ev |-> p.ev, st |-> "pending"])]
    ELSE w

\* a wheel event over the canvas. The listener exists when a canvas was
\* rendered at mount (PDFSidebar.tsx 356-359).
Wheel(ctrlKey, deltaY) ==
    /\ LET w == [World EXCEPT !.ev = WheelEvent(ctrlKey, deltaY)]
       IN  Apply("Wheel", Null,
                 Commit(World, IF viewer.wheel THEN handleWheel(w) ELSE w))

\* PDFSidebar.tsx 348-352: timer i of handleWheel fires, 16 ms after the
\* wheel event that set it
WheelZoom(i) ==
    /\ viewer.wheelTimers[i].st = "pending"
    /\ LET ev == viewer.wheelTimers[i].ev
           w == [World EXCEPT !.ev = ev,
                              !.viewer.scale = wheelZoom(@, ev.deltaY),
                              !.viewer.wheelTimers[i].st = "fired"]
       IN  Apply("WheelZoom", Null, Commit(World, w))

\* PDFSidebar.tsx 332, 360-365 and 409-415: the parent stops rendering the
\* viewer and React runs the cleanups of its effects
Unmount ==
    /\ viewer.mounted
    /\ LET r == renderTaskRef
           c == IF r = Null THEN World
                ELSE [World EXCEPT !.sess[r].cancelReq = (@ \/ sess[r].st = "active")]
           w == [clearTimeout(c) EXCEPT !.viewer.mounted = FALSE,
                                        !.viewer.wheel = FALSE,
                                        !.pan.handlers = NoHandlers,
                                        !.canvas = [el |-> Null, gen |-> @.gen,
                                                    by |-> Null, drawn |-> FALSE]]
       IN  Apply("Unmount", Null, w)

\* the text of the toolbar's page field, as a sequence of characters
Digits == <<"0", "1", "2", "3", "4", "5", "6", "7", "8", "9">>
IsDigit(c) == \E d \in DOMAIN Digits : Digits[d] = c
DigitValue(c) == (CHOOSE d \in DOMAIN Digits : Digits[d] = c) - 1

\* the value of the digits of text from position i on, after the value acc
RECURSIVE ParseDigits(_, _, _)
ParseDigits(text, i, acc) ==
    IF i > Len(text) \/ ~IsDigit(text[i]) THEN acc
    ELSE ParseDigits(text, i + 1, 10 * acc + DigitValue(text[i]))

\* parseInt(value, 10): an optional sign and the longest run of digits that
\* follows; NaN when there is no digit
parseInt(text) ==
    LET neg == Len(text) > 0 /\ text[1] = "-"
        i == IF Len(text) > 0 /\ text[1] \in {"-", "+"} THEN 2 ELSE 1
    IN  IF i > Len(text) \/ ~IsDigit(text[i])
        THEN [nan |-> TRUE, val |-> 0]
        ELSE [nan |-> FALSE,
              val |-> IF neg THEN 0 - ParseDigits(text, i, 0) ELSE ParseDigits(text, i, 0)]

\* what a user leaves in the page field (type="number")
PageTexts == {<<>>, <<"-">>, <<"0">>, <<"1">>, <<"2">>, <<"3">>, <<"4">>,
              <<"-", "1">>, <<"1", "2">>}

\* part_001 47-53: handlePageInputChange; the field is disabled while loading
PageInput(text) ==
    /\ ~app.loading
    /\ LET page == parseInt(text)
           w == IF ~page.nan /\ page.val >= 1 /\ page.val <= app.totalPages
                THEN [World EXCEPT !.app = handlePageChange(@, app.totalPages, page.val)]
                ELSE World
       IN  Apply("PageInput", Null, Commit(World, w))

-----------------------------------------------------------------------------
(* Sidebar *)

\* PDFSidebar.tsx 24: the pages the sidebar lists, one button each
pagesFromZero(totalPages) == [i \in 1..totalPages |-> i - 1]
pages(totalPages) == [i \in 1..totalPages |-> i]

\* the tasks of the sidebar that start no load and no render; they are not
\* counted as inputs
SidebarTasks == {"ToggleSidebar", "SidebarClose"}

\* App.tsx 127-129 (part_001 114-121: the sidebar button)
ToggleSidebar ==
    /\ Apply("ToggleSidebar", Null,
             Commit(World, [World EXCEPT !.app.sidebarOpen = ~@]))

\* PDFSidebar.tsx 44-47 and 61-66: a click on the backdrop or on the X
\* button of the open sidebar
SidebarClose ==
    /\ app.sidebarOpen
    /\ Apply("SidebarClose", Null, Commit(World, onClose(World)))

\* onPageSelect?.(page) as the sidebar calls it: the handlePageChange of the
\* render that passed totalPages (App.tsx 219-221)
onPageSelect(w, page) ==
    [w EXCEPT !.app = handlePageChange(@, w.app.totalPages, page),
              !.calls = Append(@, Call("onPageSelect", page))]

\* PDFSidebar.tsx 78-84: a click on button i of the list of the open sidebar
SidebarSelect(i) ==
    /\ app.sidebarOpen
    /\ i \in DOMAIN pages(app.totalPages)
    /\ Apply("SidebarSelect", Null,
             Commit(World, onClose(onPageSelect(World, pages(app.totalPages)[i]))))

-----------------------------------------------------------------------------
(* Tools and panning *)

Tools == {"cursor", "hand"}

\* clientX and clientY of the mouse events of the model
Points == {<<0, 0>>, <<1, 0>>, <<2, 1>>}

\* the tasks of the mouse and of the tool buttons; they start no load and
\* no render and are not counted as inputs
PointerTasks == {"ToolChange", "MouseDown", "MouseMove", "MouseUp", "PanRender"}

\* App.tsx 79-81 (part_001 129-145: the tool buttons)
ToolChange(tool) ==
    /\ Apply("ToolChange", Null, Commit(World, [World EXCEPT !.app.currentTool = tool]))

\* PDFSidebar.tsx 373-379: handleMouseDown, with the values its closure captured
handleMouseDown(w, onCanvas, point) ==
    IF onCanvas
    THEN [preventDefault(w) EXCEPT !.viewer.isPanning = TRUE,
                                   !.viewer.lastPanPoint = point]
    ELSE w

\* the mouse button goes down at point, on the canvas or elsewhere
MouseDown(onCanvas, point) ==
    /\ ~pan.gesture.held
    /\ onCanvas => canvas.el # Null
    /\ LET g == [World EXCEPT !.pan.gesture =
                    [held |-> TRUE, onCanvas |-> onCanvas, tool |-> app.currentTool,
                     point |-> point, scroll |-> pan.scroll, limit |-> FALSE]]
           w == IF pan.handlers.on THEN handleMouseDown(g, onCanvas, point) ELSE g
       IN  Apply("MouseDown", Null, Commit(World, w))

\* an assignment to scrollLeft or scrollTop keeps the offset within the
\* scrollable range
ClampScroll(v) == IF v < 0 THEN 0 ELSE IF v > ScrollMax THEN ScrollMax ELSE v

\* PDFSidebar.tsx 381-391: handleMouseMove, with isPanning and lastPanPoint
\* as its closure captured them; containerRef.current is the scroll
\* container, rendered together with the canvas
handleMouseMove(w, point) ==
    LET h == w.pan.handlers
        left == w.pan.scroll[1] - (point[1] - h.lastPanPoint[1])
        top == w.pan.scroll[2] - (point[2] - h.lastPanPoint[2])
    IN  IF ~h.isPanning \/ ~CanvasMounted(w) THEN w
        ELSE [w EXCEPT !.pan.scroll = <<ClampScroll(left), ClampScroll(top)>>,
                       !.pan.gesture.limit =
                            (@ \/ left # ClampScroll(left) \/ top # ClampScroll(top)),
                       !.viewer.lastPanPoint = point]

\* the mouse moves to point. setLastPanPoint is an update of a continuous
\* event: React renders it, and registers the handlers again, in a later
\* task (PanRender).
MouseMove(point) ==
    /\ LET w == IF pan.handlers.on THEN handleMouseMove(World, point) ELSE World
       IN  Apply("MouseMove", Null, w)

\* React renders the updates of the mouse moves and runs the pan effect
PanRender ==
    /\ viewer.mounted
    /\ RegisterPan(World).pan.handlers # pan.handlers
    /\ Apply("PanRender", Null, Commit(World, World))

\* PDFSidebar.tsx 393-395: handleMouseUp; the mouse button goes up
MouseUp ==
    /\ pan.gesture.held
    /\ LET g == [World EXCEPT !.pan.gesture = NoGesture]
           w == IF pan.handlers.on THEN [g EXCEPT !.viewer.isPanning = FALSE] ELSE g
       IN  Apply("MouseUp", Null, Commit(World, w))

-----------------------------------------------------------------------------

Next ==
    \/ \E n \in 0..MaxPages : SelectFile(PDFType, n)
    \/ ClosePDF
    \/ PrevPage
    \/ NextPage
    \/ ZoomIn
    \/ ZoomOut
    \/ \E f \in DOMAIN files : LoadResolve(f)
    \/ \E f \in DOMAIN files : LoadReject(f)
    \/ \E s \in DOMAIN sess : GetPageResolve(s)
    \/ \E s \in DOMAIN sess : GetPageReject(s)
    \/ \E s \in DOMAIN sess : RasterResolve(s)
    \/ \E s \in DOMAIN sess : RasterCancelled(s)
    \/ \E s \in DOMAIN sess : RasterFail(s)

Spec == Init /\ [][Next]_vars

-----------------------------------------------------------------------------
(* App with the keyboard and the page field. The viewer is the one of App, *)
(* or the same viewer under a parent that does not pass scale and          *)
(* currentPage.                                                            *)

KeyInit ==
    /\ \E c \in BOOLEAN : viewer = [pdf |-> Null, currentPage |-> 1, loading |-> FALSE,
                 scale |-> InitialScale, isPanning |-> FALSE,
                 lastPanPoint |-> <<0, 0>>, controlled |-> c, mounted |-> TRUE,
                 wheel |-> FALSE, wheelTimers |-> <<>>]
    /\ app = [currentFile |-> Null, pdf |-> Null, currentPage |-> 1,
              totalPages |-> 0, scale |-> InitialScale, loading |-> FALSE,
              error |-> NoError, sidebarOpen |-> FALSE, currentTool |-> "cursor"]
    /\ renderTaskRef = Null
    /\ canvas = [el |-> Null, gen |-> 0, by |-> Null, drawn |-> FALSE]
    /\ files = <<>>
    /\ sess = <<>>
    /\ pan = NoPan
    /\ inputs = 0
    /\ last = [task |-> "mount", s |-> Null, latest |-> FALSE, calls |-> <<>>,
               ev |-> NoEvent, mirror |-> Mirror(viewer)]

KeyNext ==
    \/ Next
    \/ \E key \in Keys, inInput \in BOOLEAN, atTop \in BOOLEAN, atBottom \in BOOLEAN :
         KeyDown(key, inInput, atTop, atBottom)
    \/ \E text \in PageTexts : PageInput(text)
    \/ \E ctrlKey \in BOOLEAN, deltaY \in DeltaYs : Wheel(ctrlKey, deltaY)

KeySpec == KeyInit /\ [][KeyNext]_vars

-----------------------------------------------------------------------------
(* The zoom handlers as functions of the scale: a viewer that shows page 1 *)
(* of a one-page document, under a parent that does not pass scale and     *)
(* currentPage and rendered the canvas at mount, with every scale of       *)
(* ScaleInputs as the toolbar's and the viewer's scale. The renders that   *)
(* the zoom steps start stay outstanding.                                  *)

ScaleInputs == {<<1, 10>>, <<2, 5>>, <<1, 2>>, <<11, 20>>, <<1, 1>>, <<6, 5>>,
                <<5, 2>>, <<14, 5>>, <<3, 1>>, <<4, 1>>}

ZoomInit ==
    /\ \E k \in ScaleInputs :
         /\ app = [currentFile |-> 1, pdf |-> 1, currentPage |-> 1,
                   totalPages |-> 1, scale |-> k, loading |-> FALSE,
                   error |-> NoError, sidebarOpen |-> FALSE, currentTool |-> "cursor"]
         /\ viewer = [pdf |-> 1, currentPage |-> 1, loading |-> FALSE,
                      scale |-> k, isPanning |-> FALSE,
                      lastPanPoint |-> <<0, 0>>, controlled |-> FALSE,
                      mounted |-> TRUE, wheel |-> TRUE, wheelTimers |-> <<>>]
    /\ renderTaskRef = Null
    /\ canvas = [el |-> 2, gen |-> 2, by |-> 1, drawn |-> TRUE]
    /\ files = <<[File(PDFType, 1) EXCEPT !.load = "loaded"]>>
    /\ sess = <<Done>>
    /\ pan = NoPan
    /\ inputs = 0
    /\ last = [task |-> "mount", s |-> Null, latest |-> FALSE, calls |-> <<>>,
               ev |-> NoEvent, mirror |-> Mirror(viewer)]

ZoomNext ==
    \/ ZoomIn
    \/ ZoomOut
    \/ \E key \in Keys, inInput \in BOOLEAN, atTop \in BOOLEAN, atBottom \in BOOLEAN :
         KeyDown(key, inInput, atTop, atBottom)
    \/ \E ctrlKey \in BOOLEAN, deltaY \in DeltaYs : Wheel(ctrlKey, deltaY)
    \/ \E i \in DOMAIN viewer.wheelTimers : WheelZoom(i)
    \/ Unmount

ZoomSpec == ZoomInit /\ [][ZoomNext]_vars

-----------------------------------------------------------------------------
(* The viewer under a parent that sets the page it passes as currentPage   *)
(* to any number (PDFSidebar.tsx 136), or passes none, and handles         *)
(* onPageChange as App does: page 1 of a document of PropPages pages is    *)
(* drawn.                                                                  *)

PropPages == 5

\* the parent renders the viewer with currentPage = page
SetPage(page) ==
    /\ Apply("SetPage", Null, Commit(World, [World EXCEPT !.app.currentPage = page]))

PropInit ==
    /\ \E c \in BOOLEAN :
         viewer = [pdf |-> 1, currentPage |-> 1, loading |-> FALSE,
                   scale |-> InitialScale, isPanning |-> FALSE,
                   lastPanPoint |-> <<0, 0>>, controlled |-> c, mounted |-> TRUE,
                   wheel |-> FALSE, wheelTimers |-> <<>>]
    /\ app = [currentFile |-> 1, pdf |-> 1, currentPage |-> 1,
              totalPages |-> PropPages, scale |-> InitialScale, loading |-> FALSE,
              error |-> NoError, sidebarOpen |-> FALSE, currentTool |-> "cursor"]
    /\ renderTaskRef = Null
    /\ canvas = [el |-> 1, gen |-> 1, by |-> 1, drawn |-> TRUE]
    /\ files = <<[File(PDFType, PropPages) EXCEPT !.load = "loaded"]>>
    /\ sess = <<Done>>
    /\ pan = NoPan
    /\ inputs = 0
    /\ last = [task |-> "mount", s |-> Null, latest |-> FALSE, calls |-> <<>>,
               ev |-> NoEvent, mirror |-> Mirror(viewer)]

PropNext ==
    \/ \E page \in 0..(PropPages + 1) : SetPage(page)
    \/ \E key \in Keys, inInput \in BOOLEAN, atTop \in BOOLEAN, atBottom \in BOOLEAN :
         KeyDown(key, inInput, atTop, atBottom)
    \/ \E s \in DOMAIN sess : GetPageResolve(s)
    \/ \E s \in DOMAIN sess : GetPageReject(s)
    \/ \E s \in DOMAIN sess : RasterResolve(s)

PropSpec == PropInit /\ [][PropNext]_vars

-----------------------------------------------------------------------------
(* The mouse on App with a document displayed: page 1 of a one-page        *)
(* document is drawn and the scroll container, larger than the viewport,   *)
(* was scrolled to <<2, 2>>.                                               *)

PanInit ==
    /\ app = [currentFile |-> 1, pdf |-> 1, currentPage |-> 1,
              totalPages |-> 1, scale |-> InitialScale, loading |-> FALSE,
              error |-> NoError, sidebarOpen |-> FALSE, currentTool |-> "cursor"]
    /\ viewer = [pdf |-> 1, currentPage |-> 1, loading |-> FALSE,
                 scale |-> InitialScale, isPanning |-> FALSE,
                 lastPanPoint |-> <<0, 0>>, controlled |-> TRUE, mounted |-> TRUE,
                 wheel |-> FALSE, wheelTimers |-> <<>>]
    /\ renderTaskRef = Null
    /\ canvas = [el |-> 1, gen |-> 1, by |-> 1, drawn |-> TRUE]
    /\ files = <<[File(PDFType, 1) EXCEPT !.load = "loaded"]>>
    /\ sess = <<Done>>
    /\ pan = [NoPan EXCEPT !.scroll = <<2, 2>>]
    /\ inputs = 0
    /\ last = [task |-> "mount", s |-> Null, latest |-> FALSE, calls |-> <<>>,
               ev |-> NoEvent, mirror |-> Mirror(viewer)]

PanNext ==
    \/ \E tool \in Tools : ToolChange(tool)
    \/ \E onCanvas \in BOOLEAN, point \in Points : MouseDown(onCanvas, point)
    \/ \E point \in Points : MouseMove(point)
    \/ MouseUp
    \/ PanRender

PanSpec == PanInit /\ [][PanNext]_vars

-----------------------------------------------------------------------------
(* App with its sidebar *)

SideNext ==
    \/ Next
    \/ ToggleSidebar
    \/ SidebarClose
    \/ \E i \in 1..MaxPages : SidebarSelect(i)
    \/ \E key \in {"Escape", "ArrowRight"} : KeyDown(key, FALSE, FALSE, FALSE)

SideSpec == Init /\ [][SideNext]_vars

-----------------------------------------------------------------------------
(* App with its export button *)

ExportNext ==
    \/ Next
    \/ ExportFile
    \/ \E f \in DOMAIN files : ExportResolve(f)
    \/ \E f \in DOMAIN files : ExportReject(f)

ExportSpec == Init /\ [][ExportNext]_vars

-----------------------------------------------------------------------------
(* App with files of every type, chosen in the file dialog or dropped *)

FileNext ==
    \/ \E type \in Types, n \in 0..MaxPages : SelectFile(type, n)
    \/ \E type \in Types, n \in 0..MaxPages : DropFile(type, n)
    \/ ClosePDF
    \/ NextPage
    \/ ZoomIn
    \/ \E f \in DOMAIN files : LoadResolve(f)
    \/ \E f \in DOMAIN files : LoadReject(f)
    \/ \E s \in DOMAIN sess : GetPageResolve(s)
    \/ \E s \in DOMAIN sess : RasterResolve(s)

FileSpec == Init /\ [][FileNext]_vars

-----------------------------------------------------------------------------
(* Properties *)

Outstanding(s) == sess[s].st \in {"pending", "active"}

\* session s runs the continuation "task" in this step
Runs(s, task) == Outstanding(s) /\ last'.task = task /\ last'.s = s

\* s is not the most recently requested session
Superseded(s) == s < Len(sess)

CallsOf(calls, cb) == {i \in DOMAIN calls : calls[i].cb = cb}

\* C1: when the raster of a session that is no longer the most recently
\* requested one resolves, nothing is written to the canvas, onPageChange
\* is not called and the current page stays as it is.
C1_OnlyLatestCommits ==
    [][\A s \in DOMAIN sess :
         (Superseded(s) /\ Runs(s, "RasterResolve"))
         => /\ canvas' = canvas
            /\ CallsOf(last'.calls, "onPageChange") = {}
            /\ app'.currentPage = app.currentPage]_vars

\* C2: a raster that resolves although cancel() was called on it updates
\* neither the canvas nor the application (no onPageChange).
C2_CancelledResolveDiscarded ==
    [][\A s \in DOMAIN sess :
         (sess[s].cancelReq /\ Runs(s, "RasterResolve"))
         => canvas' = canvas /\ last'.calls = <<>>]_vars

\* C3: while the viewer holds a document, the current page and the page of
\* every outstanding render session lie in 1..numPages of their document.
C3_PageInRange ==
    /\ viewer.pdf # Null => app.currentPage \in 1..files[viewer.pdf].numPages
    /\ \A s \in DOMAIN sess :
         Outstanding(s) => sess[s].pageNumber \in 1..files[sess[s].pdf].numPages

\* C4: when a session issues its raster, cancel() has been called on every
\* earlier session that is still pending or active.
C4_CancelBeforeRaster ==
    [][\A t \in DOMAIN sess :
         Runs(t, "GetPageResolve") /\ sess'[t].st = "active"
         => \A s \in 1..(t - 1) : Outstanding(s) => sess[s].cancelReq]_vars

\* the sessions whose raster is outstanding and was not asked to cancel
Uncancelled == {s \in DOMAIN sess : sess[s].st = "active" /\ ~sess[s].cancelReq}

\* C5: at most one raster is outstanding without a cancel() request, and
\* renderTaskRef holds it.
C5_OneActiveSession ==
    /\ Cardinality(Uncancelled) <= 1
    /\ Uncancelled # {} => renderTaskRef \in Uncancelled

\* C6: a raster that rejects with an error other than a cancellation calls
\* onLoadError once if its session is the latest, and not at all otherwise.
C6_ErrorOnlyIfLatest ==
    last.task = "RasterFail"
    => Cardinality(CallsOf(last.calls, "onLoadError")) = (IF last.latest THEN 1 ELSE 0)

\* C7: a raster that rejects with RenderingCancelledException calls neither
\* onLoadError nor onPageChange and leaves the error message as it is.
C7_CancelledIsSilent ==
    [][\A s \in DOMAIN sess :
         Runs(s, "RasterCancelled")
         => app'.error = app.error /\ last'.calls = <<>>]_vars

C7_Witness == last.task = "RasterCancelled" /\ app.error = NoError

\* C8: when the load of the current file fails, an error message is set and
\* neither the viewer nor the application holds a document any more.
C8_LoadFailureResets ==
    [][\A f \in DOMAIN files :
         (app.currentFile = f /\ files[f].load = "loading" /\ files'[f].load = "failed")
         => /\ app'.error # NoError
            /\ viewer'.pdf = Null
            /\ app'.pdf = Null
            /\ app'.totalPages = 0]_vars

\* C9: when the raster of the latest session fails on a canvas that showed a
\* finished page, the canvas still shows a finished page.
C9_FailedRenderKeepsVisual ==
    [][\A s \in DOMAIN sess :
         (~Superseded(s) /\ Runs(s, "RasterFail") /\ sess[s].visual
             /\ canvas'.el = sess[s].el)
         => canvas'.drawn]_vars

\* C10: when the raster of the latest session resolves, onPageChange is
\* called exactly once, with the page number of that session, and nothing
\* else is called.
C10_CommitEmitsPage ==
    [][\A s \in DOMAIN sess :
         (~Superseded(s) /\ Runs(s, "RasterResolve"))
         => last'.calls = <<Call("onPageChange", sess[s].pageNumber)>>]_vars

C10_Witness ==
    /\ last.task = "RasterResolve"
    /\ last.latest
    /\ CallsOf(last.calls, "onPageChange") # {}

\* C11: once the viewer holds another document or none (a new file was
\* loaded, or the viewer was closed), cancel() has been called on every
\* raster still outstanding for the old document, and no session issues a
\* raster for a document the viewer no longer holds.
C11_OldDocumentReleased ==
    [][/\ \A s \in DOMAIN sess' :
            (sess'[s].st = "active" /\ sess'[s].pdf # viewer'.pdf)
            => sess'[s].cancelReq
       /\ \A t \in DOMAIN sess :
            (Runs(t, "GetPageResolve") /\ sess'[t].st = "active")
            => sess[t].pdf = viewer.pdf]_vars

\* what the render effect is asked to show
Requested == <<viewer.pdf, activePage(World), activeScale(World)>>

\* the latest session has just drawn the requested page on the canvas
Committed ==
    /\ last.task = "RasterResolve"
    /\ last.latest
    /\ canvas.drawn
    /\ canvas.by = last.s

\* C12: after the latest session has drawn its page, a step that leaves
\* document, page and scale as they are starts no render session, issues no
\* raster and does not touch the canvas.
C12_SameRequestIsNoOp ==
    [][(Committed /\ Requested' = Requested)
       => /\ canvas' = canvas
          /\ Len(sess') = Len(sess)
          /\ \A s \in DOMAIN sess : sess'[s].st = "active" => sess[s].st = "active"]_vars

InRange(k) == ~RLess(k, MinScale) /\ ~RLess(MaxScale, k)

\* the step handles a keydown event with this key outside text inputs
Pressed(key) == last'.task = "KeyDown" /\ last'.ev.key = key /\ ~last'.ev.inInput

\* C13: every zoom operation (toolbar button, + = - key, ctrl+wheel) leaves
\* the scale it sets within [0.5, 3], whatever the scale was before.
C13_ZoomResultInRange ==
    [][/\ last'.task \in {"ZoomIn", "ZoomOut"} => InRange(app'.scale)
       /\ (Pressed("+") \/ Pressed("=") \/ Pressed("-")) => InRange(viewer'.scale)
       /\ last'.task = "WheelZoom" => InRange(viewer'.scale)]_vars

\* r is min(k * 1.2, 3): 5 * r = 6 * k unless 6 * k exceeds 15
IsZoomIn(k, r) ==
    IF 6 * k[1] > 15 * k[2] THEN r = <<3, 1>>
    ELSE Rat(5 * r[1], r[2]) = Rat(6 * k[1], k[2])

\* r is max(k / 1.2, 0.5): 6 * r = 5 * k unless 5 * k is below 3
IsZoomOut(k, r) ==
    IF 5 * k[1] < 3 * k[2] THEN r = <<1, 2>>
    ELSE Rat(6 * r[1], r[2]) = Rat(5 * k[1], k[2])

\* C14: the toolbar's zoom in and the + and = keys set the scale to
\* min(s * 1.2, 3), the toolbar's zoom out and the - key to max(s / 1.2, 0.5);
\* from 2.8 zooming in gives 3 and from 0.55 zooming out gives 0.5.
C14_ZoomInOutValues ==
    [][/\ last'.task = "ZoomIn" => IsZoomIn(app.scale, app'.scale)
       /\ last'.task = "ZoomOut" => IsZoomOut(app.scale, app'.scale)
       /\ (Pressed("+") \/ Pressed("=")) => IsZoomIn(viewer.scale, viewer'.scale)
       /\ Pressed("-") => IsZoomOut(viewer.scale, viewer'.scale)
       /\ (Pressed("+") /\ viewer.scale = <<14, 5>>) => viewer'.scale = <<3, 1>>
       /\ (last'.task = "ZoomIn" /\ app.scale = <<14, 5>>) => app'.scale = <<3, 1>>
       /\ (Pressed("-") /\ viewer.scale = <<11, 20>>) => viewer'.scale = <<1, 2>>
       /\ (last'.task = "ZoomOut" /\ app.scale = <<11, 20>>) => app'.scale = <<1, 2>>]_vars

C14_Witness ==
    /\ last.task = "KeyDown"
    /\ last.ev.key = "-"
    /\ last.ev.defaultPrevented
    /\ app.scale = <<11, 20>>
    /\ viewer.scale = <<1, 2>>

\* C15: the wheel timer sets the scale to s / 1.1 for deltaY > 0 and to
\* s * 1.1 otherwise, clamped to [0.5, 3].
C15_WheelFactor ==
    [][last'.task = "WheelZoom"
       => viewer'.scale =
            RMax(MinScale, RMin(MaxScale,
                IF last'.ev.deltaY > 0 THEN RDiv(viewer.scale, <<11, 10>>)
                ELSE RMul(viewer.scale, <<11, 10>>)))]_vars

\* the page the viewer shows lies within the document, whose page count
\* the application knows
PageWithinDocument ==
    /\ viewer.pdf # Null
    /\ app.totalPages = files[viewer.pdf].numPages
    /\ activePage(World) \in 1..app.totalPages

\* C16: an arrow key pressed while the viewer shows a page of its document
\* moves that page by at most one and leaves it within the document, and a
\* toolbar previous/next click does the same to the application's page
\* within its page count; ArrowLeft at page 1 and ArrowRight at the last
\* page change nothing; no error is reported.
C16_PageDeltaStaysInRange ==
    [][/\ (/\ last'.task = "KeyDown"
           /\ viewer.pdf # Null
           /\ activePage(World) \in 1..files[viewer.pdf].numPages)
          => /\ activePage(World)' \in 1..files[viewer.pdf].numPages
             /\ activePage(World)' - activePage(World) \in {0 - 1, 0, 1}
             /\ (last'.ev.key = "ArrowLeft" /\ activePage(World) = 1)
                   => activePage(World)' = 1
             /\ (last'.ev.key = "ArrowRight"
                   /\ activePage(World) = files[viewer.pdf].numPages)
                   => activePage(World)' = activePage(World)
             /\ app'.error = app.error
             /\ CallsOf(last'.calls, "onLoadError") = {}
       /\ (/\ last'.task \in {"PrevPage", "NextPage"}
           /\ app.currentPage \in 1..app.totalPages)
          => /\ app'.currentPage \in 1..app.totalPages
             /\ app'.currentPage - app.currentPage \in {0 - 1, 0, 1}
             /\ app'.error = app.error
             /\ CallsOf(last'.calls, "onLoadError") = {}]_vars

C16_Witness ==
    /\ last.task = "KeyDown"
    /\ last.ev.key = "ArrowLeft"
    /\ last.ev.defaultPrevented
    /\ PageWithinDocument
    /\ activePage(World) = 1
    /\ last.calls = <<>>

\* C17: when onPageChange is called with a page outside 1..totalPages, the
\* current page and the error message stay as they are.
C17_OutOfRangeJumpIgnored ==
    [][\A i \in CallsOf(last'.calls, "onPageChange") :
         last'.calls[i].arg \notin 1..app.totalPages
         => /\ app'.currentPage = app.currentPage
            /\ app'.error = app.error]_vars

\* C18: a keydown event handled while the viewer holds no document changes
\* nothing: page, scale, loading flag, error, render sessions and canvas
\* stay as they are and no callback is called.
C18_KeyWithoutDocument ==
    [][(last'.task = "KeyDown" /\ viewer.pdf = Null)
       => /\ app' = app
          /\ viewer' = viewer
          /\ sess' = sess
          /\ canvas' = canvas
          /\ renderTaskRef' = renderTaskRef
          /\ last'.calls = <<>>
          /\ ~last'.ev.defaultPrevented]_vars

C18_Witness ==
    /\ last.task = "KeyDown"
    /\ last.ev.key = "+"
    /\ ~last.ev.inInput
    /\ viewer.pdf = Null
    /\ app.currentFile # Null

\* C19: a keydown event whose target is an input, textarea or select
\* element changes neither page nor scale, calls nothing and is not
\* default-prevented.
C19_KeyInTextInput ==
    [][(last'.task = "KeyDown" /\ last'.ev.inInput)
       => /\ app'.currentPage = app.currentPage
          /\ viewer'.currentPage = viewer.currentPage
          /\ app'.scale = app.scale
          /\ viewer'.scale = viewer.scale
          /\ sess' = sess
          /\ last'.calls = <<>>
          /\ ~last'.ev.defaultPrevented]_vars

C19_Witness ==
    /\ last.task = "KeyDown"
    /\ last.ev.key = "ArrowRight"
    /\ last.ev.inInput
    /\ PageWithinDocument
    /\ activePage(World) < app.totalPages

\* C20: ArrowUp away from the top and ArrowDown away from the bottom of the
\* scroll container change no page and are not default-prevented; ArrowLeft
\* and ArrowRight are default-prevented and move the page whatever the
\* scroll position is.
C20_UpDownOnlyAtBoundary ==
    [][/\ (Pressed("ArrowUp") /\ ~last'.ev.atTop)
            => /\ activePage(World)' = activePage(World)
               /\ last'.calls = <<>>
               /\ ~last'.ev.defaultPrevented
       /\ (Pressed("ArrowDown") /\ ~last'.ev.atBottom)
            => /\ activePage(World)' = activePage(World)
               /\ last'.calls = <<>>
               /\ ~last'.ev.defaultPrevented
       /\ (Pressed("ArrowLeft") /\ PageWithinDocument)
            => /\ last'.ev.defaultPrevented
               /\ activePage(World)' =
                    IF activePage(World) > 1 THEN activePage(World) - 1 ELSE 1
       /\ (Pressed("ArrowRight") /\ PageWithinDocument)
            => /\ last'.ev.defaultPrevented
               /\ activePage(World)' =
                    IF activePage(World) < app.totalPages
                    THEN activePage(World) + 1 ELSE app.totalPages]_vars

C20_Witness ==
    /\ last.task = "KeyDown"
    /\ last.ev.key = "ArrowDown"
    /\ ~last.ev.inInput
    /\ ~last.ev.atBottom
    /\ last.ev.atTop
    /\ ~last.ev.defaultPrevented
    /\ PageWithinDocument
    /\ activePage(World) < app.totalPages

\* C21: with a document loaded, a + or = key pressed outside text inputs
\* sets the scale the viewer renders with (in controlled mode the scale of
\* the application, which the toolbar shows) to min(s * 1.2, 3), and a - key
\* sets it to max(s / 1.2, 0.5).
C21_KeysZoomRenderedScale ==
    [][/\ ((Pressed("+") \/ Pressed("=")) /\ viewer.pdf # Null)
            => IsZoomIn(activeScale(World), activeScale(World)')
       /\ (Pressed("-") /\ viewer.pdf # Null)
            => IsZoomOut(activeScale(World), activeScale(World)')]_vars

\* the viewer shows a page of a document on its canvas
DocumentDisplayed == viewer.pdf # Null /\ canvas.el # Null

\* C22: whenever the viewer displays a document, a wheel event with ctrl
\* held is default-prevented and leaves one timer pending, and the timer,
\* when it fires, multiplies the rendered scale by the wheel factor
\* (0.9 or 1.1) within [0.5, 3]; a wheel event without ctrl changes no
\* state of the viewer and is not default-prevented.
C22_CtrlWheelZooms ==
    [][/\ (last'.task = "Wheel" /\ last'.ev.ctrlKey /\ DocumentDisplayed)
            => /\ last'.ev.defaultPrevented
               /\ Cardinality(PendingTimers(World)') = 1
       /\ last'.task = "WheelZoom"
            => activeScale(World)' = wheelZoom(activeScale(World), last'.ev.deltaY)
       /\ (last'.task = "Wheel" /\ ~last'.ev.ctrlKey)
            => /\ viewer' = viewer
               /\ sess' = sess
               /\ ~last'.ev.defaultPrevented]_vars

\* C23: a wheel event with ctrl held changes no scale and leaves exactly
\* one timer pending, the one of this event, every earlier timer having
\* fired or been cleared; a timer that fires is the one of the last such
\* event and sets the scale from that event's deltaY; once the viewer is
\* unmounted no timer is pending, so that none fires.
C23_BurstGivesOneUpdate ==
    [][/\ (last'.task = "Wheel" /\ last'.ev.ctrlKey /\ viewer.wheel)
            => /\ viewer'.scale = viewer.scale
               /\ PendingTimers(World)' = {Len(viewer'.wheelTimers)}
               /\ Len(viewer'.wheelTimers) = Len(viewer.wheelTimers) + 1
               /\ viewer'.wheelTimers[Len(viewer'.wheelTimers)].ev.deltaY = last'.ev.deltaY
       /\ last'.task = "WheelZoom"
            => /\ viewer.mounted
               /\ PendingTimers(World) = {Len(viewer.wheelTimers)}
               /\ PendingTimers(World)' = {}
               /\ viewer'.scale =
                    wheelZoom(viewer.scale,
                              viewer.wheelTimers[Len(viewer.wheelTimers)].ev.deltaY)
       /\ ~viewer'.mounted => PendingTimers(World)' = {}]_vars

\* a burst of two events of opposite directions gave one update, from the
\* second event
C23_Witness ==
    /\ last.task = "WheelZoom"
    /\ last.ev.deltaY > 0
    /\ Len(viewer.wheelTimers) = 2
    /\ viewer.wheelTimers[1].st = "cleared"
    /\ viewer.wheelTimers[1].ev.deltaY < 0
    /\ viewer.wheelTimers[2].st = "fired"
    /\ Len(sess) = 2

\* a - b for two points
Minus(a, b) == <<a[1] - b[1], a[2] - b[2]>>

\* C24: a mouse move changes the scroll offsets only in the hand tool and
\* during a gesture whose mouse-down hit the canvas in the hand tool; no
\* mouse or tool step starts a render session or changes page or scale.
C24_PanOnlyHandOnCanvas ==
    [][/\ (last'.task = "MouseMove" /\ pan'.scroll # pan.scroll)
            => /\ app.currentTool = "hand"
               /\ pan.gesture.held
               /\ pan.gesture.onCanvas
               /\ pan.gesture.tool = "hand"
       /\ last'.task \in PointerTasks
            => /\ sess' = sess
               /\ renderTaskRef' = renderTaskRef
               /\ app'.currentPage = app.currentPage
               /\ viewer'.currentPage = viewer.currentPage
               /\ app'.scale = app.scale
               /\ viewer'.scale = viewer.scale]_vars

\* C25: after a mouse move of a gesture that began on the canvas in the
\* hand tool, the scroll offsets are those at the mouse-down minus the
\* displacement of the pointer since the mouse-down, unless an offset
\* reached a limit of the scrollable range during the gesture.
C25_PanFollowsPointer ==
    [][(/\ last'.task = "MouseMove"
        /\ pan.gesture.held /\ pan.gesture.onCanvas /\ pan.gesture.tool = "hand"
        /\ app.currentTool = "hand"
        /\ viewer.isPanning
        /\ ~pan'.gesture.limit)
       => pan'.scroll =
            Minus(pan.gesture.scroll, Minus(viewer'.lastPanPoint, pan.gesture.point))]_vars

\* C26: isPanning is false whenever the tool is not the hand tool and
\* whenever no mouse button is held.
C26_PanningOnlyDuringGesture ==
    /\ app.currentTool # "hand" => ~viewer.isPanning
    /\ ~pan.gesture.held => ~viewer.isPanning

\* C28: every render session that is pending or active was requested for a
\* page within 1..numPages of its document and for a scale within [0.5, 3].
C28_RenderRequestsInRange ==
    \A s \in DOMAIN sess :
        Outstanding(s) => /\ sess[s].pageNumber \in 1..files[sess[s].pdf].numPages
                          /\ InRange(sess[s].scale)

\* the step starts a render session
StartsSession == Len(sess') = Len(sess) + 1

\* C27: when the parent passes currentPage, that page becomes the page of
\* the internal state and the page of the render session a step starts,
\* whatever the internal page was, and ArrowRight and ArrowLeft request
\* the page after and before it (from 4, ArrowRight requests 5); when the
\* parent passes none, the keys change the internal page, which is the one
\* rendered, and request nothing.
C27_ExternalPageAdopted ==
    [][/\ viewer'.controlled
            => /\ viewer'.currentPage = app'.currentPage
               /\ StartsSession => sess'[Len(sess')].pageNumber = app'.currentPage
       /\ (viewer.controlled /\ Pressed("ArrowRight") /\ app.currentPage < PropPages)
            => last'.calls = <<Call("onPageChange", app.currentPage + 1)>>
       /\ (viewer.controlled /\ Pressed("ArrowLeft") /\ app.currentPage > 1)
            => last'.calls = <<Call("onPageChange", app.currentPage - 1)>>
       /\ (viewer.controlled /\ Pressed("ArrowRight") /\ app.currentPage = 4)
            => /\ last'.calls = <<Call("onPageChange", 5)>>
               /\ app'.currentPage = 5
       /\ (~viewer.controlled /\ Pressed("ArrowRight") /\ viewer.currentPage < PropPages)
            => /\ viewer'.currentPage = viewer.currentPage + 1
               /\ last'.calls = <<>>
               /\ StartsSession
               /\ sess'[Len(sess')].pageNumber = viewer'.currentPage
       /\ (~viewer.controlled /\ Pressed("ArrowLeft") /\ viewer.currentPage > 1)
            => /\ viewer'.currentPage = viewer.currentPage - 1
               /\ last'.calls = <<>>]_vars

\* the parent passed 2, then 4, and ArrowRight requested 5 of it
C27_Witness ==
    /\ viewer.controlled
    /\ last.task = "KeyDown"
    /\ last.ev.key = "ArrowRight"
    /\ last.calls = <<Call("onPageChange", 5)>>
    /\ last.mirror.currentPage = 4
    /\ Len(sess) = 4
    /\ sess[2].pageNumber = 2
    /\ sess[3].pageNumber = 4
    /\ sess[4].pageNumber = 5

\* C29: when the parent passes page and scale, the page and scale of the
\* internal state, whatever they were in the commit of a step, equal the
\* passed ones once the sync effects of that commit have run, and running
\* the sync effects again changes nothing.
C29_MirrorsReconciled ==
    [][viewer'.controlled
       => /\ viewer'.currentPage = app'.currentPage
          /\ viewer'.scale = app'.scale
          /\ SyncExternal(World)' = World']_vars

\* the + key changed the internal scale only, and the sync effect set it
\* back to the scale the parent passes
C29_Witness ==
    /\ viewer.controlled
    /\ last.task = "KeyDown"
    /\ last.ev.key = "+"
    /\ last.mirror.scale = <<36, 25>>
    /\ app.scale = <<6, 5>>
    /\ viewer.scale = <<6, 5>>

\* the steps that continue a renderPage() call
RenderTasks == {"GetPageResolve", "GetPageReject", "RasterResolve",
                "RasterCancelled", "RasterFail"}

\* C30: while the page shown lies within the document, each next-page
\* intent (ArrowRight, toolbar next) moves the page to min(p + 1, pageCount)
\* and each previous-page intent (ArrowLeft, toolbar previous) to
\* max(p - 1, 1), and no continuation of a render changes the page between
\* two intents, so that k intents from p end at min(p + k, pageCount).
C30_IntentsApplied ==
    [][PageWithinDocument
       => /\ Pressed("ArrowRight")
               => activePage(World)' =
                    IF activePage(World) < app.totalPages
                    THEN activePage(World) + 1 ELSE app.totalPages
          /\ Pressed("ArrowLeft")
               => activePage(World)' =
                    IF activePage(World) > 1 THEN activePage(World) - 1 ELSE 1
          /\ last'.task = "NextPage" => app'.currentPage = app.currentPage + 1
          /\ last'.task = "PrevPage" => app'.currentPage = app.currentPage - 1
          /\ last'.task \in RenderTasks => activePage(World)' = activePage(World)]_vars

\* the raster of session s is outstanding before and after the step
StaysActive(s) == sess[s].st = "active" /\ sess'[s].st = "active"

\* C31: while the raster of a session stays outstanding, a step that changes
\* the document, page or scale the viewer is to show, a file being current,
\* starts a render session for them, and when the raster of the latest
\* session resolves, onPageChange is called with its page and its page is
\* drawn on the canvas, unless the canvas was replaced or sized again while
\* it drew.
C31_HungRasterDoesNotBlock ==
    [][\A s \in DOMAIN sess :
         StaysActive(s)
         => /\ (Requested' # Requested /\ viewer'.pdf # Null /\ app'.currentFile # Null)
                 => /\ StartsSession
                    /\ sess'[Len(sess')].st = "pending"
                    /\ <<sess'[Len(sess')].pdf, sess'[Len(sess')].pageNumber,
                          sess'[Len(sess')].scale>> = Requested'
            /\ \A t \in DOMAIN sess :
                 (~Superseded(t) /\ Runs(t, "RasterResolve"))
                 => /\ last'.calls = <<Call("onPageChange", sess[t].pageNumber)>>
                    /\ (canvas'.el = sess[t].el /\ canvas.by = t)
                         => canvas'.drawn /\ canvas'.by = t]_vars

\* the page of the latest session was drawn and reported while the raster
\* of an earlier session, started for another page, is still outstanding
C31_Witness ==
    /\ last.task = "RasterResolve"
    /\ last.latest
    /\ last.s = 3
    /\ last.calls = <<Call("onPageChange", 2)>>
    /\ canvas.drawn
    /\ canvas.by = 3
    /\ sess[2].st = "active"
    /\ sess[2].cancelReq
    /\ sess[2].pageNumber = 1

\* the elements of a sequence
Range(seq) == {seq[i] : i \in DOMAIN seq}

\* C32: a click on a page button of the sidebar calls onPageSelect with a
\* page p of 1..totalPages, after which p is the page the application
\* holds, the page passed to the viewer and the page of the viewer's state,
\* a render session for p is started if the viewer shows another page of a
\* document, and the sidebar is closed; the sidebar lists the pages
\* 1..totalPages, each once.
C32_SidebarSelectsPage ==
    [][/\ last'.task = "SidebarSelect"
            => \E p \in 1..app.totalPages :
                 /\ last'.calls = <<Call("onPageSelect", p)>>
                 /\ app'.currentPage = p
                 /\ activePage(World)' = p
                 /\ viewer'.currentPage = p
                 /\ ~app'.sidebarOpen
                 /\ (viewer.pdf # Null /\ app.currentFile # Null /\ p # app.currentPage)
                      => /\ StartsSession
                         /\ sess'[Len(sess')].pageNumber = p
       /\ Len(pages(app'.totalPages)) = app'.totalPages
       /\ Range(pages(app'.totalPages)) = 1..app'.totalPages]_vars

\* page 2 of a 2-page document was selected in the sidebar while page 1 was
\* shown
C32_Witness ==
    /\ last.task = "SidebarSelect"
    /\ last.calls = <<Call("onPageSelect", 2)>>
    /\ app.totalPages = 2
    /\ app.currentPage = 2
    /\ ~app.sidebarOpen
    /\ Len(sess) = 2
    /\ sess[2].pageNumber = 2
    /\ sess[2].st = "pending"

\* the load of the current file, or the render session requested last, has
\* not finished
LatestOutstanding ==
    \/ app.currentFile # Null /\ files[app.currentFile].load = "loading"
    \/ Len(sess) > 0 /\ Outstanding(Len(sess))

\* some load or some render session has not finished
AnyOutstanding ==
    \/ \E f \in DOMAIN files : files[f].load = "loading"
    \/ \E s \in DOMAIN sess : Outstanding(s)

\* C33: the loading flag of the viewer is true while the load of the
\* current file or the latest render session is outstanding, and false when
\* no load and no render session is outstanding.
C33_LoadingFollowsWork ==
    /\ LatestOutstanding => viewer.loading
    /\ ~AnyOutstanding => ~viewer.loading

\* part_001 199, 214 and 226: the disabled attributes of the toolbar's
\* previous button, page field and next button
PrevDisabled == app.currentPage <= 1 \/ app.loading
PageFieldDisabled == app.loading
NextDisabled == app.currentPage >= app.totalPages \/ app.loading

\* C34: while the load of the current file or the latest render session is
\* outstanding, the loading flag App passes to the toolbar is true and the
\* toolbar's previous button, next button and page field are disabled.
C34_ToolbarLoadingFlag ==
    LatestOutstanding
    => /\ app.loading
       /\ PrevDisabled
       /\ NextDisabled
       /\ PageFieldDisabled

\* the state of App after handleClosePDF
Empty(a) ==
    /\ a.currentFile = Null
    /\ a.pdf = Null
    /\ a.currentPage = 1
    /\ a.totalPages = 0
    /\ a.scale = InitialScale
    /\ a.error = NoError
    /\ ~a.sidebarOpen

\* the steps that continue a loadPDF() call
LoadTasks == {"LoadResolve", "LoadReject"}

\* C35: closing the document leaves the state of App empty, and while no
\* file is current no continuation of a load or of a render changes the
\* document, the page count, the current page or the error of App.
C35_ClosedStaysEmpty ==
    [][/\ last'.task = "ClosePDF" => Empty(app')
       /\ (app.currentFile = Null /\ last'.task \in LoadTasks \cup RenderTasks)
            => /\ app'.pdf = app.pdf
               /\ app'.totalPages = app.totalPages
               /\ app'.currentPage = app.currentPage
               /\ app'.error = app.error]_vars

\* C36: once every load has finished and the load of the current file has
\* succeeded, the document the viewer holds and the document and page count
\* reported to App are those of the current file, the one selected last.
C36_LatestFileWins ==
    (/\ app.currentFile # Null
     /\ files[app.currentFile].load = "loaded"
     /\ \A f \in DOMAIN files : files[f].load # "loading")
    => /\ viewer.pdf = app.currentFile
       /\ app.pdf = app.currentFile
       /\ app.totalPages = files[app.currentFile].numPages

\* C37: when the bytes of file f have been read for an export, f, which was
\* current when the export was requested, is downloaded, and the state of
\* App is reset as by close if f is still the current file and left as it
\* is if another file has been selected since; when the read fails, the
\* error is 'Failed to export PDF' and file, document, page, page count and
\* scale stay as they are.
C37_ExportClosesItsFile ==
    [][/\ last'.task = "ExportResolve"
            => \E f \in DOMAIN files :
                 /\ files[f].reads > 0
                 /\ last'.calls = <<Call("downloadBlob", f)>>
                 /\ IF app.currentFile = f THEN Empty(app') ELSE app' = app
       /\ last'.task = "ExportReject"
            => app' = [app EXCEPT !.error = ExportFailed]]_vars

\* C38: a file whose type is not application/pdf, chosen or dropped, sets
\* the error message of its handler and leaves everything else of App, the
\* files, the viewer and the render sessions as they are; a file of type
\* application/pdf becomes the current file and the error is cleared.
C38_OnlyPDFAccepted ==
    [][last'.task \in {"SelectFile", "DropFile"}
       => IF last'.calls[1].arg # PDFType
          THEN /\ app' = [app EXCEPT !.error = IF last'.task = "SelectFile"
                                               THEN SelectInvalid ELSE DropInvalid]
               /\ files' = files
               /\ viewer' = viewer
               /\ sess' = sess
          ELSE /\ Len(files') = Len(files) + 1
               /\ files'[Len(files')].type = PDFType
               /\ app'.currentFile = Len(files')
               /\ app'.error = NoError]_vars

\* a text file was dropped while page 2 of a document was shown
C38_Witness ==
    /\ last.task = "DropFile"
    /\ last.calls = <<Call("isPDFFile", "text/plain")>>
    /\ app.error = DropInvalid
    /\ app.currentFile = 1
    /\ viewer.pdf = 1
    /\ app.currentPage = 2
    /\ canvas.drawn

====
